---------------------------- MODULE Spec2Model ----------------------------
(***************************************************************************)
(* State-machine model of stel::Event<Ts...> (the Channel) and its         *)
(* Event::Subscription handle, from event.hpp.                             *)
(*                                                                         *)
(* Every call is cut into the steps that other threads can observe: the    *)
(* atomic fetch_add on next_id_, the acquisition of write_mtx_ (with the   *)
(* load of slots_ it protects), the atomic store of slots_, and the return *)
(* (which runs the lock_guard's destructor).  publish invokes one slot     *)
(* per step.  A Slot is [id, cb]; cb names the callback the caller passed   *)
(* (named after the id it is registered under).  A callback is opaque: on  *)
(* each invocation it either returns or raises.                            *)
(*                                                                         *)
(* The Event is owned through std::shared_ptr (event.hpp's typical use,    *)
(* main.cpp, EventBus): extOwner says that the callers' strong reference   *)
(* still exists.  A Subscription is a single-owner object: two threads     *)
(* never operate on the same handle at once.                               *)
(*                                                                         *)
(* Spec      the Event under concurrent subscribe, unsubscribe, publish,   *)
(*           subscriber_count, clear and handle release or destruction.    *)
(* SpecMove  the Event with handles that are moved (constructor and        *)
(*           assignment) as well as released and destroyed.                *)
(* SpecBus   stel::EventBus<Ts...>: the topic map under m_, the Events it  *)
(*           owns, and callbacks that call back into the bus from inside   *)
(*           publish.                                                      *)
(* SpecLive  the bus together with an Event that its callbacks call back   *)
(*           into and whose callbacks may own Subscriptions of it, under   *)
(*           weak fairness of each thread.                                 *)
(***************************************************************************)
EXTENDS Integers, Sequences, FiniteSets, TLC

\* ------------------------------------------------------------------ bounds
NumThreads == 2
MaxSubscribes == 3
MaxCalls == 4
\* EventBus: topics, calls started (nested ones included), depth of nesting
NumTopics == 2
MaxBusCalls == 3
MaxDepth == 2

Threads == 1..NumThreads
\* what one invocation of a callback does
Outcomes == {"returns", "throws"}

VARIABLES
    slots,        \* Event::slots_ : the current snapshot, a sequence of Slots
    next_id,      \* Event::next_id_
    write_mtx,    \* Event::write_mtx_ : 0 when free, else the holding thread
    extOwner,     \* the callers still hold a shared_ptr<Event>
    handles,      \* the Subscriptions handed out, in order of creation
    pc,           \* each thread's position
    loc,          \* each thread's locals
    lastCount,    \* the value the last subscriber_count() returned
    \* ---- history variables (read by the properties only)
    calls,        \* number of calls started
    g,            \* per publish call: what it invoked and what it had to see
    issued,       \* ids fetch_add has handed out
    idReused,     \* some fetch_add handed out an id that was issued before
    reissue,      \* some fetch_add ran after an entry had been taken out of slots_
    insertOrder,  \* ids in the order their subscribe stored to slots_
    subscribed,   \* ids whose subscribe call has returned
    gone,         \* ids an unsubscribe store or a clear store took out
    released,     \* ids whose Subscription release went through the Event and returned
    subsDone,     \* completed subscribe calls
    unsubsTrue,   \* unsubscribe(id) calls that returned true
    cleared,      \* some clear() has run
    clearedIds,   \* ids that were in slots_ when a clear replaced it
    trueCnt,      \* per id: how many Event::unsubscribe(id) calls returned true
    relCalls,     \* <<handle, id>> of every Event::unsubscribe call made by a handle
    hrets,        \* per handle: the results of its explicit unsubscribe() calls
    \* ---- moves of Subscriptions
    ctorMoves,    \* the move constructions requested: [src, srcId, made]
    \* ---- EventBus
    bus_m,        \* EventBus::m_ : 0 when free, else the holding thread
    channels,     \* EventBus::channels_ : per topic the Event it maps to (0: no entry)
    chan,         \* the Events made by the bus: [topic, slots, next_id, write_mtx]
    bhandles,     \* the Subscriptions the bus handed out: [ch, id]
    frames,       \* each thread's stack of calls in progress (the last is running)
    bcalls,       \* number of bus calls started
    subStarted,   \* topics some EventBus::subscribe has been called with
    delivered,    \* topics a publish to which has invoked a callback
    topicsSeen,   \* how many topics the callers have used so far
    \* ---- an Event whose callbacks call back into it and may own Subscriptions
    channel,      \* the Event: [slots, next_id, write_mtx]
    tokens        \* its Subscriptions: [id, by, gone]; by: the id of the slot
                  \* whose callback owns the handle (0: the callers hold it)

vars == <<slots, next_id, write_mtx, extOwner, handles, pc, loc, lastCount,
          calls, g, issued, idReused, reissue, insertOrder, subscribed, gone, released,
          subsDone, unsubsTrue, cleared, clearedIds, trueCnt, relCalls, hrets,
          ctorMoves, bus_m, channels, chan, bhandles, frames, bcalls, subStarted,
          delivered, topicsSeen, channel, tokens>>

\* the Event of the fair specification and its handles
chVars == <<channel, tokens>>

\* the state of an EventBus and of the Events it owns
busVars == <<bus_m, channels, chan, bhandles, frames, bcalls, subStarted, delivered, topicsSeen>>

\* what the methods of Event leave alone
ext == <<ctorMoves, busVars, chVars>>

\* ----------------------------------------------------------------- helpers
\* src, srcId, srcOwner: inside a move assignment, the handle moved from and
\* the (owner_, id_) taken from it
NoLoc == [id |-> 0, cb |-> 0, h |-> 0, dtor |-> FALSE,
          curr |-> <<>>, snapshot |-> <<>>, idx |-> 0, removed |-> FALSE,
          src |-> 0, srcId |-> 0, srcOwner |-> FALSE]

NoG == [invoked |-> <<>>, raised |-> {}, seen |-> {}, barred |-> {}, required |-> {},
        must |-> {}]

Ids(s) == {s[i].id : i \in 1..Len(s)}

\* one more occurrence of id in the tally f (a sequence indexed by id)
CountUp(f, id) ==
    [i \in 1..(IF id > Len(f) THEN id ELSE Len(f)) |->
        (IF i <= Len(f) THEN f[i] ELSE 0) + (IF i = id THEN 1 ELSE 0)]

\* Event() : slots_(make_shared<SlotVec>()), next_id_(1)
InitialId == 1

\* next_id_.fetch_add(1): the value stored back
FetchAdd_NoIncrement(n) == n
FetchAdd(n) == n + 1

\* std::lock_guard<std::mutex> lk(write_mtx_) can be constructed
MutexFree_NoLock(m) == TRUE
MutexFree(m) == m = 0

\* what publish and subscriber_count wait for before slots_.load(): nothing
\* (neither constructs a lock_guard on write_mtx_)
ReaderCanLoad_Locked(m) == m = 0
ReaderCanLoad(m) == TRUE

\* next = make_shared<SlotVec>(*curr); next->emplace_back(id, cb)
CopyAppend_NoCopy(curr, id, cb) == <<[id |-> id, cb |-> cb]>>
CopyAppend_Front(curr, id, cb) == <<[id |-> id, cb |-> cb]>> \o curr
CopyAppend(curr, id, cb) == Append(curr, [id |-> id, cb |-> cb])

\* the loop of Event::unsubscribe: the entries kept, in order
RECURSIVE Kept(_, _)
Kept_All(curr, id) == curr
Kept(curr, id) ==
    IF curr = <<>> THEN <<>>
    ELSE IF Head(curr).id = id THEN Kept(Tail(curr), id)
         ELSE <<Head(curr)>> \o Kept(Tail(curr), id)

\* the loop of Event::unsubscribe: removed
Removed_Always(curr, id) == TRUE
Removed(curr, id) == \E i \in 1..Len(curr) : curr[i].id = id

\* Subscription::unsubscribe: if (!ev || id_ == 0) return false
Inert(ev, id) == ~ev \/ id = 0

\* the slot the range-for of publish visits at position i
SlotAt_Live(snapshot, current, i) ==
    IF i <= Len(current) THEN current[i] ELSE snapshot[i]
SlotAt(snapshot, current, i) == snapshot[i]

\* try { slot.second(args...) } catch (...) {} : what leaves the try block
Guarded_Rethrow(outcome) == IF outcome = "throws" THEN "escaped" ELSE "returned"
Guarded(outcome) == IF outcome = "throws" THEN "caught" ELSE "returned"

\* Subscription::unsubscribe after the Event's answer: id_ = 0; owner_.reset()
AfterRelease_Kept(hrec) == hrec
AfterRelease(hrec) == [hrec EXCEPT !.id = 0, !.owner = FALSE]

\* ~Subscription() { unsubscribe(); }
DtorReleases_Forgotten == FALSE
DtorReleases == TRUE

InUnsub(t) == pc[t] \in {"unsub_lock", "unsub_store", "unsub_ret"}
InSub(t) == pc[t] \in {"sub_lock", "sub_store", "sub_ret"}
InPub(t) == pc[t] \in {"pub_load", "pub_iter", "pub_unwind"}

\* the Event exists: a caller's shared_ptr, or the ev a handle locked
ChannelAlive ==
    extOwner \/ \E t \in Threads : (InUnsub(t) \/ pc[t] = "h_reset") /\ loc[t].h # 0

\* some thread is inside a method of handle h
HandleBusy(h) == \E t \in Threads : pc[t] # "idle" /\ (loc[t].h = h \/ loc[t].src = h)

\* a store to slots_ is seen by the publishes that have not loaded yet
SeenAfter(new) ==
    [t \in Threads |->
        IF pc[t] = "pub_load" THEN [g[t] EXCEPT !.seen = @ \cup {new}] ELSE g[t]]

\* a new call runs on the lowest-numbered idle thread: threads are
\* interchangeable, so every set of concurrent calls is still reached
CanCall(t) ==
    /\ pc[t] = "idle"
    /\ calls < MaxCalls
    /\ \A u \in Threads : u < t => pc[u] # "idle"

Init ==
    /\ slots = <<>>
    /\ next_id = InitialId
    /\ write_mtx = 0
    /\ extOwner = TRUE
    /\ handles = <<>>
    /\ pc = [t \in Threads |-> "idle"]
    /\ loc = [t \in Threads |-> NoLoc]
    /\ lastCount = 0
    /\ calls = 0
    /\ g = [t \in Threads |-> NoG]
    /\ issued = {}
    /\ idReused = FALSE
    /\ reissue = FALSE
    /\ insertOrder = <<>>
    /\ subscribed = {}
    /\ gone = {}
    /\ released = {}
    /\ subsDone = 0
    /\ unsubsTrue = 0
    /\ cleared = FALSE
    /\ clearedIds = {}
    /\ trueCnt = <<>>
    /\ relCalls = <<>>
    /\ hrets = <<>>
    /\ ctorMoves = <<>>
    /\ bus_m = 0
    /\ channels = [topic \in 1..NumTopics |-> 0]
    /\ chan = <<>>
    /\ bhandles = <<>>
    /\ frames = [t \in Threads |-> <<>>]
    /\ bcalls = 0
    /\ subStarted = {}
    /\ delivered = {}
    /\ topicsSeen = 0
    /\ channel = [slots |-> <<>>, next_id |-> InitialId, write_mtx |-> 0]
    /\ tokens = <<>>

\* ---------------------------------------------------------- Event::subscribe
\* const size_t id = next_id_.fetch_add(1)
Subscribe_FetchAdd(t) ==
    /\ CanCall(t) /\ extOwner
    /\ next_id <= MaxSubscribes
    /\ next_id' = FetchAdd(next_id)
    /\ loc' = [loc EXCEPT ![t] = [NoLoc EXCEPT !.id = next_id, !.cb = next_id]]
    /\ pc' = [pc EXCEPT ![t] = "sub_lock"]
    /\ issued' = issued \cup {next_id}
    /\ idReused' = (idReused \/ next_id \in issued)
    /\ reissue' = (reissue \/ gone # {})
    /\ calls' = calls + 1
    /\ UNCHANGED ext
    /\ UNCHANGED <<slots, write_mtx, extOwner, handles, lastCount, g, insertOrder,
                   subscribed, gone, released, subsDone, unsubsTrue, cleared,
                   relCalls, hrets,
                   clearedIds, trueCnt>>

\* lock_guard lk(write_mtx_); auto curr = slots_.load()
\* (one step: while t holds write_mtx_ no other thread stores to slots_)
Subscribe_Lock(t) ==
    /\ pc[t] = "sub_lock"
    /\ MutexFree(write_mtx)
    /\ write_mtx' = t
    /\ loc' = [loc EXCEPT ![t].curr = slots]
    /\ pc' = [pc EXCEPT ![t] = "sub_store"]
    /\ UNCHANGED ext
    /\ UNCHANGED <<slots, next_id, extOwner, handles, lastCount, calls, g,
                   issued, idReused, reissue, insertOrder, subscribed, gone, released,
                   subsDone, unsubsTrue, cleared, relCalls, hrets,
                   clearedIds, trueCnt>>

\* next = copy of *curr plus (id, cb); slots_.store(next)
Subscribe_Store(t) ==
    /\ pc[t] = "sub_store"
    /\ slots' = CopyAppend(loc[t].curr, loc[t].id, loc[t].cb)
    /\ pc' = [pc EXCEPT ![t] = "sub_ret"]
    /\ insertOrder' = Append(insertOrder, loc[t].id)
    /\ g' = SeenAfter(slots')
    /\ UNCHANGED ext
    /\ UNCHANGED <<next_id, write_mtx, extOwner, handles, loc, lastCount, calls,
                   issued, idReused, reissue, subscribed, gone, released, subsDone,
                   unsubsTrue, cleared, relCalls, hrets,
                   clearedIds, trueCnt>>

\* return Subscription{weak_from_this(), id}; the lock_guard unlocks
Subscribe_Return(t) ==
    /\ pc[t] = "sub_ret"
    /\ handles' = Append(handles, [owner |-> TRUE, id |-> loc[t].id,
                                   destroyed |-> FALSE, dtorId |-> 0,
                                   deadCall |-> FALSE])
    /\ hrets' = Append(hrets, <<>>)
    /\ write_mtx' = 0
    /\ pc' = [pc EXCEPT ![t] = "idle"]
    /\ loc' = [loc EXCEPT ![t] = NoLoc]
    /\ subscribed' = subscribed \cup {loc[t].id}
    /\ subsDone' = subsDone + 1
    /\ UNCHANGED ext
    /\ UNCHANGED <<g, slots, next_id, extOwner, lastCount, calls, issued, idReused, reissue,
                   insertOrder, gone, released, unsubsTrue, cleared, relCalls,
                   clearedIds, trueCnt>>

\* -------------------------------------------------------- Event::unsubscribe
\* a caller's ev->unsubscribe(id): an id handed out before, or the next one
\* (an id the Event does not know yet)
Unsubscribe_Call(t, id) ==
    /\ CanCall(t) /\ extOwner
    /\ id <= next_id
    /\ loc' = [loc EXCEPT ![t] = [NoLoc EXCEPT !.id = id]]
    /\ pc' = [pc EXCEPT ![t] = "unsub_lock"]
    /\ calls' = calls + 1
    /\ UNCHANGED ext
    /\ UNCHANGED <<slots, next_id, write_mtx, extOwner, handles, lastCount, g,
                   issued, idReused, reissue, insertOrder, subscribed, gone, released,
                   subsDone, unsubsTrue, cleared, relCalls, hrets,
                   clearedIds, trueCnt>>

\* lock_guard lk(write_mtx_); auto curr = slots_.load()
Unsubscribe_Lock(t) ==
    /\ pc[t] = "unsub_lock"
    /\ MutexFree(write_mtx)
    /\ write_mtx' = t
    /\ loc' = [loc EXCEPT ![t].curr = slots]
    /\ pc' = [pc EXCEPT ![t] = "unsub_store"]
    /\ UNCHANGED ext
    /\ UNCHANGED <<slots, next_id, extOwner, handles, lastCount, calls, g,
                   issued, idReused, reissue, insertOrder, subscribed, gone, released,
                   subsDone, unsubsTrue, cleared, relCalls, hrets,
                   clearedIds, trueCnt>>

\* the filtering loop; if (removed) slots_.store(next)
Unsubscribe_Store(t) ==
    /\ pc[t] = "unsub_store"
    /\ LET removed == Removed(loc[t].curr, loc[t].id)
           next == Kept(loc[t].curr, loc[t].id)
       IN /\ loc' = [loc EXCEPT ![t].removed = removed]
          /\ IF removed
             THEN /\ slots' = next
                  /\ gone' = gone \cup {loc[t].id}
                  /\ g' = SeenAfter(next)
             ELSE UNCHANGED <<slots, gone, g>>
    /\ pc' = [pc EXCEPT ![t] = "unsub_ret"]
    /\ UNCHANGED ext
    /\ UNCHANGED <<next_id, write_mtx, extOwner, handles, lastCount, calls, issued,
                   idReused, reissue, insertOrder, subscribed, released, subsDone,
                   unsubsTrue, cleared, relCalls, hrets,
                   clearedIds, trueCnt>>

\* return removed; the lock_guard unlocks.  When the call came from a
\* Subscription (loc.h # 0) the thread is back in Subscription::unsubscribe,
\* with the result in removed
Unsubscribe_Return(t) ==
    /\ pc[t] = "unsub_ret"
    /\ write_mtx' = 0
    /\ unsubsTrue' = unsubsTrue + (IF loc[t].removed THEN 1 ELSE 0)
    /\ trueCnt' = IF loc[t].removed THEN CountUp(trueCnt, loc[t].id) ELSE trueCnt
    /\ IF loc[t].h # 0
       THEN /\ pc' = [pc EXCEPT ![t] = "h_reset"]
            /\ loc' = loc
       ELSE /\ pc' = [pc EXCEPT ![t] = "idle"]
            /\ loc' = [loc EXCEPT ![t] = NoLoc]
    /\ UNCHANGED ext
    /\ UNCHANGED <<g, slots, next_id, extOwner, handles, lastCount, calls, issued,
                   idReused, reissue, insertOrder, subscribed, gone, released, subsDone,
                   cleared, relCalls, hrets, clearedIds>>

\* Subscription::unsubscribe after ev->unsubscribe(id_) has returned:
\* id_ = 0; owner_.reset(); return removed  (the destructor ends the handle;
\* the move assignment drops the result and goes on to take over the source)
Subscription_Reset(t) ==
    /\ pc[t] = "h_reset"
    /\ handles' = [handles EXCEPT ![loc[t].h] =
                      [AfterRelease(@) EXCEPT !.destroyed = loc[t].dtor]]
    /\ released' = released \cup {loc[t].id}
    /\ hrets' = IF loc[t].dtor \/ loc[t].src # 0 THEN hrets
                ELSE [hrets EXCEPT ![loc[t].h] = Append(@, loc[t].removed)]
    /\ IF loc[t].src # 0
       THEN /\ pc' = [pc EXCEPT ![t] = "mv_xfer"]
            /\ loc' = loc
       ELSE /\ pc' = [pc EXCEPT ![t] = "idle"]
            /\ loc' = [loc EXCEPT ![t] = NoLoc]
    /\ UNCHANGED ext
    /\ UNCHANGED <<g, slots, next_id, write_mtx, extOwner, lastCount, calls, issued,
                   idReused, reissue, insertOrder, subscribed, gone, subsDone, unsubsTrue,
                   cleared, relCalls, clearedIds, trueCnt>>

\* ------------------------------------------------ Event::Subscription
\* usable by thread t: constructed, not destroyed, no other thread inside it
Usable(h) == h \in 1..Len(handles) /\ ~handles[h].destroyed /\ ~HandleBusy(h)

\* bool unsubscribe(): auto ev = owner_.lock();
\* if (!ev || id_ == 0) return false; removed = ev->unsubscribe(id_)
\* deadCall: unsubscribe() has been called on the handle with the Event gone
Subscription_Unsubscribe(t, h) ==
    /\ CanCall(t) /\ Usable(h)
    /\ calls' = calls + 1
    /\ LET ev == handles[h].owner /\ ChannelAlive
       IN IF Inert(ev, handles[h].id)
          THEN /\ hrets' = [hrets EXCEPT ![h] = Append(@, FALSE)]
               /\ handles' = [handles EXCEPT ![h].deadCall = @ \/ ~ChannelAlive]
               /\ UNCHANGED <<pc, loc, relCalls>>
          ELSE /\ loc' = [loc EXCEPT ![t] = [NoLoc EXCEPT !.id = handles[h].id, !.h = h]]
               /\ pc' = [pc EXCEPT ![t] = "unsub_lock"]
               /\ relCalls' = Append(relCalls, <<h, handles[h].id>>)
               /\ UNCHANGED <<hrets, handles>>
    /\ UNCHANGED ext
    /\ UNCHANGED <<slots, next_id, write_mtx, extOwner, lastCount, g,
                   issued, idReused, reissue, insertOrder, subscribed, gone, released,
                   subsDone, unsubsTrue, cleared,
                   clearedIds, trueCnt>>

\* ~Subscription() { unsubscribe(); }
\* dtorId: the id the handle held when its destructor started with the Event alive
Subscription_Destroy(t, h) ==
    /\ CanCall(t) /\ Usable(h)
    /\ calls' = calls + 1
    /\ LET ev == handles[h].owner /\ ChannelAlive
           did == IF ev THEN handles[h].id ELSE 0
       IN IF ~DtorReleases \/ Inert(ev, handles[h].id)
          THEN /\ handles' = [handles EXCEPT ![h].destroyed = TRUE, ![h].dtorId = did]
               /\ UNCHANGED <<pc, loc, relCalls>>
          ELSE /\ handles' = [handles EXCEPT ![h].dtorId = did]
               /\ loc' = [loc EXCEPT ![t] = [NoLoc EXCEPT !.id = handles[h].id,
                                                          !.h = h, !.dtor = TRUE]]
               /\ pc' = [pc EXCEPT ![t] = "unsub_lock"]
               /\ relCalls' = Append(relCalls, <<h, handles[h].id>>)
    /\ UNCHANGED ext
    /\ UNCHANGED <<slots, next_id, write_mtx, extOwner, lastCount, g, issued,
                   idReused, reissue, insertOrder, subscribed, gone, released, subsDone,
                   unsubsTrue, cleared, hrets,
                   clearedIds, trueCnt>>

\* ------------------------------------------------------------ Event::publish
\* the call starts; nothing is read yet
Publish_Call(t) ==
    /\ CanCall(t) /\ extOwner
    /\ pc' = [pc EXCEPT ![t] = "pub_load"]
    /\ loc' = [loc EXCEPT ![t] = NoLoc]
    /\ g' = [g EXCEPT ![t] = [NoG EXCEPT !.seen = {slots}, !.barred = released,
                                         !.required = subscribed]]
    /\ calls' = calls + 1
    /\ UNCHANGED ext
    /\ UNCHANGED <<slots, next_id, write_mtx, extOwner, handles, lastCount, issued,
                   idReused, reissue, insertOrder, subscribed, gone, released, subsDone,
                   unsubsTrue, cleared, relCalls, hrets,
                   clearedIds, trueCnt>>

\* auto snapshot = slots_.load()
Publish_Load(t) ==
    /\ pc[t] = "pub_load"
    /\ ReaderCanLoad(write_mtx)
    /\ loc' = [loc EXCEPT ![t].snapshot = slots, ![t].idx = 1]
    /\ pc' = [pc EXCEPT ![t] = "pub_iter"]
    /\ g' = [g EXCEPT ![t].must = g[t].required \ gone, ![t].required = {}]
    /\ UNCHANGED ext
    /\ UNCHANGED <<slots, next_id, write_mtx, extOwner, handles, lastCount, calls,
                   issued, idReused, reissue, insertOrder, subscribed, gone, released,
                   subsDone, unsubsTrue, cleared, relCalls, hrets,
                   clearedIds, trueCnt>>

\* one turn of for (auto& slot : *snapshot) { try { slot.second(args...); } catch (...) {} }
\* g.raised: the positions of the snapshot whose callback raised
Publish_Invoke(t, outcome) ==
    /\ pc[t] = "pub_iter"
    /\ loc[t].idx <= Len(loc[t].snapshot)
    /\ LET slot == SlotAt(loc[t].snapshot, slots, loc[t].idx)
       IN /\ g' = [g EXCEPT ![t].invoked = Append(@, slot),
                            ![t].raised = IF outcome = "throws"
                                          THEN @ \cup {loc[t].idx} ELSE @]
          /\ IF Guarded(outcome) = "escaped"
             THEN pc' = [pc EXCEPT ![t] = "pub_unwind"]
             ELSE pc' = pc
    /\ loc' = [loc EXCEPT ![t].idx = @ + 1]
    /\ UNCHANGED ext
    /\ UNCHANGED <<slots, next_id, write_mtx, extOwner, handles, lastCount, calls,
                   issued, idReused, reissue, insertOrder, subscribed, gone, released,
                   subsDone, unsubsTrue, cleared, relCalls, hrets,
                   clearedIds, trueCnt>>

\* the loop is over (or an exception left it): back in the caller
Publish_Return(t) ==
    /\ \/ pc[t] = "pub_iter" /\ loc[t].idx > Len(loc[t].snapshot)
       \/ pc[t] = "pub_unwind"
    /\ pc' = [pc EXCEPT ![t] = "idle"]
    /\ loc' = [loc EXCEPT ![t] = NoLoc]
    /\ g' = [g EXCEPT ![t] = NoG]
    /\ UNCHANGED ext
    /\ UNCHANGED <<slots, next_id, write_mtx, extOwner, handles, lastCount, calls,
                   issued, idReused, reissue, insertOrder, subscribed, gone, released,
                   subsDone, unsubsTrue, cleared, relCalls, hrets,
                   clearedIds, trueCnt>>

\* --------------------------------------------------- Event::subscriber_count
subscriber_count == Len(slots)

Subscriber_Count(t) ==
    /\ CanCall(t) /\ extOwner
    /\ ReaderCanLoad(write_mtx)
    /\ lastCount' = subscriber_count
    /\ calls' = calls + 1
    /\ UNCHANGED ext
    /\ UNCHANGED <<slots, next_id, write_mtx, extOwner, handles, pc, loc, g, issued,
                   idReused, reissue, insertOrder, subscribed, gone, released, subsDone,
                   unsubsTrue, cleared, relCalls, hrets,
                   clearedIds, trueCnt>>

\* -------------------------------------------------------------- Event::clear
\* lock_guard lk(write_mtx_)
Clear_Lock(t) ==
    /\ CanCall(t) /\ extOwner
    /\ MutexFree(write_mtx)
    /\ write_mtx' = t
    /\ pc' = [pc EXCEPT ![t] = "clr_store"]
    /\ loc' = [loc EXCEPT ![t] = NoLoc]
    /\ calls' = calls + 1
    /\ UNCHANGED ext
    /\ UNCHANGED <<slots, next_id, extOwner, handles, lastCount, g, issued, idReused, reissue,
                   insertOrder, subscribed, gone, released, subsDone, unsubsTrue,
                   cleared, relCalls, hrets,
                   clearedIds, trueCnt>>

\* slots_.store(make_shared<SlotVec>())
Clear_Store(t) ==
    /\ pc[t] = "clr_store"
    /\ slots' = <<>>
    /\ gone' = gone \cup Ids(slots)
    /\ cleared' = TRUE
    /\ clearedIds' = clearedIds \cup Ids(slots)
    /\ g' = SeenAfter(<<>>)
    /\ pc' = [pc EXCEPT ![t] = "clr_ret"]
    /\ UNCHANGED ext
    /\ UNCHANGED <<next_id, write_mtx, extOwner, handles, loc, lastCount, calls,
                   issued, idReused, reissue, insertOrder, subscribed, released, subsDone,
                   unsubsTrue, relCalls, hrets,
                   trueCnt>>

\* the lock_guard unlocks
Clear_Return(t) ==
    /\ pc[t] = "clr_ret"
    /\ write_mtx' = 0
    /\ pc' = [pc EXCEPT ![t] = "idle"]
    /\ UNCHANGED ext
    /\ UNCHANGED <<g, slots, next_id, extOwner, handles, loc, lastCount, calls,
                   issued, idReused, reissue, insertOrder, subscribed, gone, released,
                   subsDone, unsubsTrue, cleared, relCalls, hrets,
                   clearedIds, trueCnt>>

\* ------------------------------------------------- the owners let go of the Event
\* the callers drop their shared_ptr<Event> (none of them is inside a call
\* made through it); the Event dies with the last reference
ReleaseOwner ==
    /\ extOwner
    /\ \A t \in Threads : pc[t] = "idle" \/ loc[t].h # 0
    /\ extOwner' = FALSE
    /\ UNCHANGED ext
    /\ UNCHANGED <<slots, next_id, write_mtx, handles, pc, loc, lastCount, calls, g,
                   issued, idReused, reissue, insertOrder, subscribed, gone, released,
                   subsDone, unsubsTrue, cleared, relCalls, hrets,
                   clearedIds, trueCnt>>

Next ==
    \/ \E t \in Threads : Subscribe_FetchAdd(t)
    \/ \E t \in Threads : Subscribe_Lock(t)
    \/ \E t \in Threads : Subscribe_Store(t)
    \/ \E t \in Threads : Subscribe_Return(t)
    \/ \E t \in Threads, id \in 1..MaxSubscribes : Unsubscribe_Call(t, id)
    \/ \E t \in Threads : Unsubscribe_Lock(t)
    \/ \E t \in Threads : Unsubscribe_Store(t)
    \/ \E t \in Threads : Unsubscribe_Return(t)
    \/ \E t \in Threads : Subscription_Reset(t)
    \/ \E t \in Threads, h \in 1..Len(handles) : Subscription_Unsubscribe(t, h)
    \/ \E t \in Threads, h \in 1..Len(handles) : Subscription_Destroy(t, h)
    \/ \E t \in Threads : Publish_Call(t)
    \/ \E t \in Threads : Publish_Load(t)
    \/ \E t \in Threads, outcome \in Outcomes : Publish_Invoke(t, outcome)
    \/ \E t \in Threads : Publish_Return(t)
    \/ \E t \in Threads : Subscriber_Count(t)
    \/ \E t \in Threads : Clear_Lock(t)
    \/ \E t \in Threads : Clear_Store(t)
    \/ \E t \in Threads : Clear_Return(t)
    \/ ReleaseOwner

Spec == Init /\ [][Next]_vars

\* ------------------------------------------------ moving a Subscription
\* the history variables of the Event
hist == <<issued, idReused, reissue, insertOrder, subscribed, gone, released,
          subsDone, unsubsTrue, cleared, clearedIds, trueCnt>>

\* std::exchange(obj, new_value) needs obj = new_value: std::weak_ptr<Event>
\* can be assigned a weak_ptr or a shared_ptr, nothing else
ExchangeWellFormed(newValue) == newValue \in {"weak_ptr", "shared_ptr"}

\* Subscription(Subscription&& other)
\*   : owner_(std::exchange(other.owner_, nullptr)), id_(std::exchange(other.id_, 0))
\* the first initialiser assigns nullptr to a std::weak_ptr: the constructor
\* cannot be instantiated, a program that moves a Subscription into a new one
\* is rejected and no handle is made (made = 0)
MoveConstruct(t, h) ==
    /\ CanCall(t) /\ Usable(h)
    /\ calls' = calls + 1
    /\ IF ExchangeWellFormed("nullptr")
       THEN /\ handles' = Append([handles EXCEPT ![h].owner = FALSE, ![h].id = 0],
                                 [owner |-> handles[h].owner, id |-> handles[h].id,
                                  destroyed |-> FALSE, dtorId |-> 0,
                                  deadCall |-> FALSE])
            /\ hrets' = Append(hrets, <<>>)
            /\ ctorMoves' = Append(ctorMoves, [src |-> h, srcId |-> handles[h].id,
                                               made |-> Len(handles) + 1])
       ELSE /\ ctorMoves' = Append(ctorMoves, [src |-> h, srcId |-> handles[h].id,
                                               made |-> 0])
            /\ UNCHANGED <<handles, hrets>>
    /\ UNCHANGED <<slots, next_id, write_mtx, extOwner, pc, loc, lastCount, g, relCalls>>
    /\ UNCHANGED hist
    /\ UNCHANGED <<busVars, chVars>>

\* operator=(Subscription&& other): inside if (this != &other), unsubscribe() comes first
AssignReleasesTarget_Skipped == FALSE
AssignReleasesTarget == TRUE

\* Subscription& operator=(Subscription&& other): dst = std::move(src)
\* if (this != &other) { unsubscribe(); ... }
MoveAssign_Call(t, dst, src) ==
    /\ CanCall(t) /\ Usable(dst) /\ Usable(src)
    /\ calls' = calls + 1
    /\ LET ev == handles[dst].owner /\ ChannelAlive
           mine == [NoLoc EXCEPT !.id = handles[dst].id, !.h = dst, !.src = src]
       IN IF dst = src
          THEN UNCHANGED <<pc, loc, relCalls>>
          ELSE IF ~AssignReleasesTarget \/ Inert(ev, handles[dst].id)
          THEN /\ loc' = [loc EXCEPT ![t] = mine]
               /\ pc' = [pc EXCEPT ![t] = "mv_xfer"]
               /\ UNCHANGED relCalls
          ELSE /\ loc' = [loc EXCEPT ![t] = mine]
               /\ pc' = [pc EXCEPT ![t] = "unsub_lock"]
               /\ relCalls' = Append(relCalls, <<dst, handles[dst].id>>)
    /\ UNCHANGED <<slots, next_id, write_mtx, extOwner, handles, lastCount, g, hrets>>
    /\ UNCHANGED hist
    /\ UNCHANGED ext

\* owner_ = std::move(other.owner_); id_ = other.id_; other.id_ = 0
\* (a moved-from std::weak_ptr is empty)
MoveAssign_Transfer(t) ==
    /\ pc[t] = "mv_xfer"
    /\ LET dst == loc[t].h
           src == loc[t].src
       IN /\ handles' = [handles EXCEPT ![dst].owner = handles[src].owner,
                                        ![dst].id = handles[src].id,
                                        ![src].owner = FALSE,
                                        ![src].id = 0]
          /\ loc' = [loc EXCEPT ![t].srcId = handles[src].id,
                                ![t].srcOwner = handles[src].owner]
    /\ pc' = [pc EXCEPT ![t] = "mv_ret"]
    /\ UNCHANGED <<slots, next_id, write_mtx, extOwner, lastCount, calls, g, relCalls,
                   hrets>>
    /\ UNCHANGED hist
    /\ UNCHANGED ext

\* return *this
MoveAssign_Return(t) ==
    /\ pc[t] = "mv_ret"
    /\ pc' = [pc EXCEPT ![t] = "idle"]
    /\ loc' = [loc EXCEPT ![t] = NoLoc]
    /\ UNCHANGED <<slots, next_id, write_mtx, extOwner, handles, lastCount, calls, g,
                   relCalls, hrets>>
    /\ UNCHANGED hist
    /\ UNCHANGED ext

\* programs that subscribe and then release, destroy and move their handles
NextMove ==
    \/ \E t \in Threads : Subscribe_FetchAdd(t)
    \/ \E t \in Threads : Subscribe_Lock(t)
    \/ \E t \in Threads : Subscribe_Store(t)
    \/ \E t \in Threads : Subscribe_Return(t)
    \/ \E t \in Threads : Unsubscribe_Lock(t)
    \/ \E t \in Threads : Unsubscribe_Store(t)
    \/ \E t \in Threads : Unsubscribe_Return(t)
    \/ \E t \in Threads : Subscription_Reset(t)
    \/ \E t \in Threads, h \in 1..Len(handles) : Subscription_Unsubscribe(t, h)
    \/ \E t \in Threads, h \in 1..Len(handles) : Subscription_Destroy(t, h)
    \/ \E t \in Threads, h \in 1..Len(handles) : MoveConstruct(t, h)
    \/ \E t \in Threads, dst \in 1..Len(handles), src \in 1..Len(handles) :
           MoveAssign_Call(t, dst, src)
    \/ \E t \in Threads : MoveAssign_Transfer(t)
    \/ \E t \in Threads : MoveAssign_Return(t)
    \/ ReleaseOwner

SpecMove == Init /\ [][NextMove]_vars

\* ================================================================ EventBus
Topics == 1..NumTopics

\* the single Event and the handles of the specifications above
eventVars == <<slots, next_id, write_mtx, extOwner, handles, pc, loc, lastCount, calls, g,
               relCalls, hrets, hist, ctorMoves>>

\* what the methods of EventBus leave alone
evVars == <<eventVars, chVars>>

\* one call in progress: ch is the Event the call works on (an index of chan)
\* fresh: channels_ had no entry for the topic when the subscribe was called
\* n: the value subsriber_count is returning
NoFrame == [op |-> "none", pc |-> "none", topic |-> 0, ch |-> 0, h |-> 0, id |-> 0,
            curr |-> <<>>, snapshot |-> <<>>, idx |-> 0, removed |-> FALSE,
            fresh |-> FALSE, created |-> FALSE, n |-> 0]

Depth(t) == Len(frames[t])
Top(t) == frames[t][Depth(t)]
At(t, p) == Depth(t) > 0 /\ Top(t).pc = p

\* t is inside publish at the slot at idx: the callback of that slot is about
\* to run or is running (it has not returned yet)
InCallback(t) == At(t, "bp_iter") /\ Top(t).idx <= Len(Top(t).snapshot)

\* t can start a call: from its caller's code (on the lowest-numbered thread
\* that is not in a call) or from the callback that publish invokes next
CanStart(t) ==
    /\ bcalls < MaxBusCalls
    /\ \/ Depth(t) = 0 /\ \A u \in Threads : u < t => Depth(u) > 0
       \/ InCallback(t) /\ Depth(t) < MaxDepth

\* topics are interchangeable strings: they are numbered in the order in
\* which the callers first use them
CanName(topic) == topic <= topicsSeen + 1
Named(topic) == IF topic > topicsSeen THEN topic ELSE topicsSeen

\* the call f starts: from the caller's code, or from the callback that
\* publish is running, which goes on when f has returned (and may then make
\* further calls before it returns, see Bus_Publish_Invoke)
Started(t, f) == [frames EXCEPT ![t] = Append(@, f)]

\* the topics with a callback invoked, once t has started a call
DeliveredBy(t) == IF Depth(t) = 0 THEN delivered ELSE delivered \cup {Top(t).topic}

\* the running call of t goes on as f
Moved(t, f) == [frames EXCEPT ![t][Depth(t)] = f]

\* the running call of t returns to its caller
Returned(t) == [frames EXCEPT ![t] = SubSeq(@, 1, Depth(t) - 1)]

\* some call in progress is inside handle h of the bus (a call on a handle of
\* the bus carries the topic of its Event; the handles of another Event are
\* other objects)
BusHandleBusy(h) ==
    \E t \in Threads : \E i \in 1..Depth(t) :
        frames[t][i].topic # 0 /\ frames[t][i].h = h

\* std::make_shared<EventType>() for a topic
NewEvent(topic) == [topic |-> topic, slots |-> <<>>, next_id |-> InitialId, write_mtx |-> 0]

\* it->second->subscriber_count(), or 0 without an entry
BusCountOf(topic) == IF channels[topic] = 0 THEN 0 ELSE Len(chan[channels[topic]].slots)

\* std::lock_guard<std::mutex> lk(m_) can be constructed
BusMutexFree_NoLock(m) == TRUE
BusMutexFree(m) == m = 0

\* EventBus::publish looks the topic up with channels_.find: no entry is made
FindInserts_Yes == TRUE
FindInserts == FALSE

\* EventBus::publish: the lock_guard on m_ lives in an inner block that ends
\* before ch->publish
PublishUnlocks == TRUE

\* ------------------------------------------------------ EventBus::subscribe
Bus_Subscribe_Call(t, topic) ==
    /\ CanStart(t)
    /\ CanName(topic)
    /\ frames' = Started(t, [NoFrame EXCEPT !.op = "subscribe", !.pc = "bs_lock",
                                            !.topic = topic,
                                            !.fresh = (channels[topic] = 0)])
    /\ bcalls' = bcalls + 1
    /\ subStarted' = subStarted \cup {topic}
    /\ delivered' = DeliveredBy(t)
    /\ UNCHANGED <<bus_m, channels, chan, bhandles>>
    /\ UNCHANGED evVars
    /\ topicsSeen' = Named(topic)

\* std::lock_guard lk(m_); auto& ch = channels_[topic]
\* (one step: while t holds m_ no other thread writes channels_)
Bus_Subscribe_Lock(t) ==
    /\ At(t, "bs_lock")
    /\ BusMutexFree(bus_m)
    /\ bus_m' = t
    /\ frames' = Moved(t, [Top(t) EXCEPT !.ch = channels[Top(t).topic],
                                        !.pc = IF channels[Top(t).topic] = 0
                                               THEN "bs_create" ELSE "bs_enter"])
    /\ UNCHANGED <<channels, chan, bhandles, bcalls, subStarted, delivered>>
    /\ UNCHANGED evVars
    /\ UNCHANGED topicsSeen

\* if (!ch) ch = std::make_shared<EventType>()
Bus_Subscribe_Create(t) ==
    /\ At(t, "bs_create")
    /\ chan' = Append(chan, NewEvent(Top(t).topic))
    /\ channels' = [channels EXCEPT ![Top(t).topic] = Len(chan) + 1]
    /\ frames' = Moved(t, [Top(t) EXCEPT !.ch = Len(chan) + 1, !.created = TRUE,
                                        !.pc = "bs_enter"])
    /\ UNCHANGED <<bus_m, bhandles, bcalls, subStarted, delivered>>
    /\ UNCHANGED evVars
    /\ UNCHANGED topicsSeen

\* ch->subscribe(cb), with m_ still held: id = next_id_.fetch_add(1)
Bus_Subscribe_FetchAdd(t) ==
    /\ At(t, "bs_enter")
    /\ LET c == Top(t).ch
       IN /\ chan' = [chan EXCEPT ![c].next_id = FetchAdd(@)]
          /\ frames' = Moved(t, [Top(t) EXCEPT !.id = chan[c].next_id,
                                              !.pc = "bs_chlock"])
    /\ UNCHANGED <<bus_m, channels, bhandles, bcalls, subStarted, delivered>>
    /\ UNCHANGED evVars
    /\ UNCHANGED topicsSeen

\* lock_guard lk(write_mtx_); curr = slots_.load()
Bus_Subscribe_ChLock(t) ==
    /\ At(t, "bs_chlock")
    /\ LET c == Top(t).ch
       IN /\ MutexFree(chan[c].write_mtx)
          /\ chan' = [chan EXCEPT ![c].write_mtx = t]
          /\ frames' = Moved(t, [Top(t) EXCEPT !.curr = chan[c].slots,
                                              !.pc = "bs_store"])
    /\ UNCHANGED <<bus_m, channels, bhandles, bcalls, subStarted, delivered>>
    /\ UNCHANGED evVars
    /\ UNCHANGED topicsSeen

\* next = copy of *curr plus (id, cb); slots_.store(next)
Bus_Subscribe_Store(t) ==
    /\ At(t, "bs_store")
    /\ chan' = [chan EXCEPT ![Top(t).ch].slots =
                   CopyAppend(Top(t).curr, Top(t).id, Top(t).id)]
    /\ frames' = Moved(t, [Top(t) EXCEPT !.pc = "bs_ret"])
    /\ UNCHANGED <<bus_m, channels, bhandles, bcalls, subStarted, delivered>>
    /\ UNCHANGED evVars
    /\ UNCHANGED topicsSeen

\* Event::subscribe returns Subscription{weak_from_this(), id}: its lock_guard
\* on write_mtx_ unlocks; m_ is still held
Bus_Subscribe_EvReturn(t) ==
    /\ At(t, "bs_ret")
    /\ chan' = [chan EXCEPT ![Top(t).ch].write_mtx = 0]
    /\ frames' = Moved(t, [Top(t) EXCEPT !.pc = "bs_unlock"])
    /\ UNCHANGED <<bus_m, channels, bhandles, bcalls, subStarted, delivered>>
    /\ UNCHANGED evVars
    /\ UNCHANGED topicsSeen

\* EventBus::subscribe returns the Subscription: the lock_guard on m_ unlocks
Bus_Subscribe_Return(t) ==
    /\ At(t, "bs_unlock")
    /\ bus_m' = 0
    /\ bhandles' = Append(bhandles, [ch |-> Top(t).ch, id |-> Top(t).id])
    /\ frames' = Returned(t)
    /\ UNCHANGED <<channels, chan, bcalls, subStarted, delivered>>
    /\ UNCHANGED evVars
    /\ UNCHANGED topicsSeen

\* -------------------------------------------------------- EventBus::publish
Bus_Publish_Call(t, topic) ==
    /\ CanStart(t)
    /\ CanName(topic)
    /\ frames' = Started(t, [NoFrame EXCEPT !.op = "publish", !.pc = "bp_find",
                                            !.topic = topic])
    /\ bcalls' = bcalls + 1
    /\ delivered' = DeliveredBy(t)
    /\ UNCHANGED <<bus_m, channels, chan, bhandles, subStarted>>
    /\ UNCHANGED evVars
    /\ topicsSeen' = Named(topic)

\* { lock_guard lk(m_); it = channels_.find(topic); if (it != end) ch = it->second; }
Bus_Publish_Find(t) ==
    /\ At(t, "bp_find")
    /\ BusMutexFree(bus_m)
    /\ bus_m' = IF PublishUnlocks THEN bus_m ELSE t
    /\ LET found == channels[Top(t).topic]
       IN /\ frames' = Moved(t, [Top(t) EXCEPT !.ch = found,
                                              !.pc = IF found = 0 THEN "bp_ret"
                                                     ELSE "bp_load"])
          /\ IF FindInserts /\ found = 0
             THEN /\ chan' = Append(chan, NewEvent(Top(t).topic))
                  /\ channels' = [channels EXCEPT ![Top(t).topic] = Len(chan) + 1]
             ELSE UNCHANGED <<chan, channels>>
    /\ UNCHANGED <<bhandles, bcalls, subStarted, delivered>>
    /\ UNCHANGED evVars
    /\ UNCHANGED topicsSeen

\* if (ch) ch->publish(args...): auto snapshot = slots_.load()
Bus_Publish_Load(t) ==
    /\ At(t, "bp_load")
    /\ frames' = Moved(t, [Top(t) EXCEPT !.snapshot = chan[Top(t).ch].slots,
                                        !.idx = 1, !.pc = "bp_iter"])
    /\ UNCHANGED <<bus_m, channels, chan, bhandles, bcalls, subStarted, delivered>>
    /\ UNCHANGED evVars
    /\ UNCHANGED topicsSeen

\* one turn of the range-for of Event::publish: the callback of the slot at
\* idx returns or throws, after the calls it has made (if any) have returned
Bus_Publish_Invoke(t, outcome) ==
    /\ InCallback(t)
    /\ frames' = Moved(t, [Top(t) EXCEPT !.idx = @ + 1,
                                        !.pc = IF Guarded(outcome) = "escaped"
                                               THEN "bp_ret" ELSE @])
    /\ delivered' = delivered \cup {Top(t).topic}
    /\ UNCHANGED <<bus_m, channels, chan, bhandles, bcalls, subStarted>>
    /\ UNCHANGED evVars
    /\ UNCHANGED topicsSeen

\* the loop is over, or there was no Event for the topic
Bus_Publish_Return(t) ==
    /\ \/ At(t, "bp_iter") /\ Top(t).idx > Len(Top(t).snapshot)
       \/ At(t, "bp_ret")
    /\ bus_m' = IF PublishUnlocks THEN bus_m ELSE 0
    /\ frames' = Returned(t)
    /\ UNCHANGED <<channels, chan, bhandles, bcalls, subStarted, delivered>>
    /\ UNCHANGED evVars
    /\ UNCHANGED topicsSeen

\* ------------------------------------------------ EventBus::subsriber_count
Bus_Count_Call(t, topic) ==
    /\ CanStart(t)
    /\ CanName(topic)
    /\ frames' = Started(t, [NoFrame EXCEPT !.op = "count", !.pc = "bc_lock",
                                            !.topic = topic])
    /\ bcalls' = bcalls + 1
    /\ delivered' = DeliveredBy(t)
    /\ UNCHANGED <<bus_m, channels, chan, bhandles, subStarted>>
    /\ UNCHANGED evVars
    /\ topicsSeen' = Named(topic)

\* lock_guard lk(m_); it = channels_.find(topic);
\* n = (it == end ? 0 : it->second->subscriber_count())
Bus_Count_Read(t) ==
    /\ At(t, "bc_lock")
    /\ BusMutexFree(bus_m)
    /\ bus_m' = t
    /\ frames' = Moved(t, [Top(t) EXCEPT !.n = BusCountOf(Top(t).topic),
                                        !.pc = "bc_ret"])
    /\ UNCHANGED <<channels, chan, bhandles, bcalls, subStarted, delivered>>
    /\ UNCHANGED evVars
    /\ UNCHANGED topicsSeen

\* return n: the lock_guard on m_ unlocks
Bus_Count_Return(t) ==
    /\ At(t, "bc_ret")
    /\ bus_m' = 0
    /\ frames' = Returned(t)
    /\ UNCHANGED <<channels, chan, bhandles, bcalls, subStarted, delivered>>
    /\ UNCHANGED evVars
    /\ UNCHANGED topicsSeen

\* ------------------------- Subscription::unsubscribe on a handle of the bus
\* ev = owner_.lock() (the bus keeps every Event alive); id_ # 0:
\* ev->unsubscribe(id_)
Bus_Release_Call(t, h) ==
    /\ CanStart(t)
    /\ ~BusHandleBusy(h)
    /\ ~Inert(TRUE, bhandles[h].id)
    /\ frames' = Started(t, [NoFrame EXCEPT !.op = "release", !.pc = "br_lock",
                                            !.h = h, !.ch = bhandles[h].ch,
                                            !.topic = chan[bhandles[h].ch].topic,
                                            !.id = bhandles[h].id])
    /\ bcalls' = bcalls + 1
    /\ delivered' = DeliveredBy(t)
    /\ UNCHANGED <<bus_m, channels, chan, bhandles, subStarted>>
    /\ UNCHANGED evVars
    /\ UNCHANGED topicsSeen

\* lock_guard lk(write_mtx_); auto curr = slots_.load()
Bus_Release_Lock(t) ==
    /\ At(t, "br_lock")
    /\ MutexFree(chan[Top(t).ch].write_mtx)
    /\ chan' = [chan EXCEPT ![Top(t).ch].write_mtx = t]
    /\ frames' = Moved(t, [Top(t) EXCEPT !.curr = chan[Top(t).ch].slots,
                                        !.pc = "br_store"])
    /\ UNCHANGED <<bus_m, channels, bhandles, bcalls, subStarted, delivered>>
    /\ UNCHANGED evVars
    /\ UNCHANGED topicsSeen

\* the filtering loop; if (removed) slots_.store(next)
Bus_Release_Store(t) ==
    /\ At(t, "br_store")
    /\ LET removed == Removed(Top(t).curr, Top(t).id)
       IN /\ chan' = IF removed
                     THEN [chan EXCEPT ![Top(t).ch].slots = Kept(Top(t).curr, Top(t).id)]
                     ELSE chan
          /\ frames' = Moved(t, [Top(t) EXCEPT !.removed = removed, !.pc = "br_ret"])
    /\ UNCHANGED <<bus_m, channels, bhandles, bcalls, subStarted, delivered>>
    /\ UNCHANGED evVars
    /\ UNCHANGED topicsSeen

\* Event::unsubscribe returns removed: the lock_guard on write_mtx_ unlocks
Bus_Release_Unlock(t) ==
    /\ At(t, "br_ret")
    /\ chan' = [chan EXCEPT ![Top(t).ch].write_mtx = 0]
    /\ frames' = Moved(t, [Top(t) EXCEPT !.pc = "br_reset"])
    /\ UNCHANGED <<bus_m, channels, bhandles, bcalls, subStarted, delivered>>
    /\ UNCHANGED evVars
    /\ UNCHANGED topicsSeen

\* back in Subscription::unsubscribe: id_ = 0; owner_.reset(); return removed
Bus_Release_Return(t) ==
    /\ At(t, "br_reset")
    /\ bhandles' = [bhandles EXCEPT ![Top(t).h].id = 0]
    /\ frames' = Returned(t)
    /\ UNCHANGED <<bus_m, channels, chan, bcalls, subStarted, delivered>>
    /\ UNCHANGED evVars
    /\ UNCHANGED topicsSeen

\* the steps of t that go on with a call in progress
BusStep(t) ==
    \/ Bus_Subscribe_Lock(t)
    \/ Bus_Subscribe_Create(t)
    \/ Bus_Subscribe_FetchAdd(t)
    \/ Bus_Subscribe_ChLock(t)
    \/ Bus_Subscribe_Store(t)
    \/ Bus_Subscribe_EvReturn(t)
    \/ Bus_Subscribe_Return(t)
    \/ Bus_Publish_Find(t)
    \/ Bus_Publish_Load(t)
    \/ \E outcome \in Outcomes : Bus_Publish_Invoke(t, outcome)
    \/ Bus_Publish_Return(t)
    \/ Bus_Count_Read(t)
    \/ Bus_Count_Return(t)
    \/ Bus_Release_Lock(t)
    \/ Bus_Release_Store(t)
    \/ Bus_Release_Unlock(t)
    \/ Bus_Release_Return(t)

BusNext ==
    \/ \E t \in Threads, topic \in Topics : Bus_Subscribe_Call(t, topic)
    \/ \E t \in Threads : Bus_Subscribe_Lock(t)
    \/ \E t \in Threads : Bus_Subscribe_Create(t)
    \/ \E t \in Threads : Bus_Subscribe_FetchAdd(t)
    \/ \E t \in Threads : Bus_Subscribe_ChLock(t)
    \/ \E t \in Threads : Bus_Subscribe_Store(t)
    \/ \E t \in Threads : Bus_Subscribe_EvReturn(t)
    \/ \E t \in Threads : Bus_Subscribe_Return(t)
    \/ \E t \in Threads, topic \in Topics : Bus_Publish_Call(t, topic)
    \/ \E t \in Threads : Bus_Publish_Find(t)
    \/ \E t \in Threads : Bus_Publish_Load(t)
    \/ \E t \in Threads, outcome \in Outcomes : Bus_Publish_Invoke(t, outcome)
    \/ \E t \in Threads : Bus_Publish_Return(t)
    \/ \E t \in Threads, topic \in Topics : Bus_Count_Call(t, topic)
    \/ \E t \in Threads : Bus_Count_Read(t)
    \/ \E t \in Threads : Bus_Count_Return(t)
    \/ \E t \in Threads, h \in 1..Len(bhandles) : Bus_Release_Call(t, h)
    \/ \E t \in Threads : Bus_Release_Lock(t)
    \/ \E t \in Threads : Bus_Release_Store(t)
    \/ \E t \in Threads : Bus_Release_Unlock(t)
    \/ \E t \in Threads : Bus_Release_Return(t)

SpecBus == Init /\ [][BusNext]_vars

\* ======================================== an Event called from its callbacks
\* The Event `channel` is used as main.cpp uses ev: the callers hold its
\* shared_ptr throughout.  A call on it is a frame with topic 0 (the calls on
\* the bus carry their topic).  A callback may call the Event from inside
\* publish, and the callable passed to subscribe may own a Subscription of the
\* same Event (captured through a shared_ptr of which the callers keep no
\* copy): that handle is destroyed with the last copy of the callable, which
\* is when the last SlotVec holding its slot is destroyed.

\* calls started in all (nested ones and calls on the bus included)
MaxLiveCalls == 5

\* what the calls on `channel` leave alone
busRest == <<bus_m, channels, chan, bhandles, subStarted, delivered, topicsSeen>>

\* f is a call on `channel`
OnEvent(f) == f.op # "none" /\ f.topic = 0

\* t is inside Event::publish at the slot at idx, whose callback is about to
\* run or is running
InEvCallback(t) == At(t, "cp_iter") /\ Top(t).idx <= Len(Top(t).snapshot)

\* t can start a call on `channel`: from its caller's code (on the lowest
\* thread that is not in a call) or from the callback that publish is running
EvCanStart(t) ==
    /\ bcalls < MaxLiveCalls
    /\ \/ Depth(t) = 0 /\ \A u \in Threads : u < t => Depth(u) > 0
       \/ InEvCallback(t) /\ Depth(t) < MaxDepth

\* some call in progress is inside Subscription h
TokenBusy(h) ==
    \E t \in Threads : \E i \in 1..Depth(t) : OnEvent(frames[t][i]) /\ frames[t][i].h = h

\* the call f holds a SlotVec (its curr or its snapshot) with the slot id
Holds(f, id) == OnEvent(f) /\ id \in Ids(f.curr) \cup Ids(f.snapshot)

\* a SlotVec other than the one of the running call of t holds the slot id:
\* slots_ itself, or the curr or snapshot of another call
HeldElsewhere(t, id) ==
    \/ id \in Ids(channel.slots)
    \/ \E u \in Threads : \E j \in 1..Depth(u) :
          ~(u = t /\ j = Depth(t)) /\ Holds(frames[u][j], id)

\* the running call of t is where its curr or snapshot goes out of scope
AtScopeEnd(t) ==
    /\ Depth(t) > 0
    /\ OnEvent(Top(t))
    /\ \/ Top(t).pc \in {"cu_ret", "cc_ret", "cn_ret", "cp_ret"}
       \/ Top(t).pc = "cp_iter" /\ Top(t).idx > Len(Top(t).snapshot)

\* the handles whose owning callable has its last copy in the SlotVec that the
\* running call of t is letting go
Dying(t) ==
    {h \in 1..Len(tokens) :
        /\ tokens[h].by # 0
        /\ ~tokens[h].gone
        /\ ~TokenBusy(h)
        /\ Holds(Top(t), tokens[h].by)
        /\ ~HeldElsewhere(t, tokens[h].by)}

\* ---------------------------------------------------------- Event::subscribe
\* subscribe(cb), cb owning handle own (0: none): id = next_id_.fetch_add(1)
Channel_Subscribe_FetchAdd(t, own) ==
    /\ EvCanStart(t)
    /\ \/ own = 0
       \/ /\ own \in 1..Len(tokens)
          /\ tokens[own].by = 0
          /\ ~Inert(TRUE, tokens[own].id)
          /\ ~TokenBusy(own)
    /\ channel' = [channel EXCEPT !.next_id = FetchAdd(@)]
    /\ tokens' = IF own = 0 THEN tokens
                 ELSE [tokens EXCEPT ![own].by = channel.next_id]
    /\ frames' = Started(t, [NoFrame EXCEPT !.op = "ev_subscribe", !.pc = "cs_lock",
                                            !.id = channel.next_id])
    /\ bcalls' = bcalls + 1
    /\ UNCHANGED busRest
    /\ UNCHANGED eventVars

\* lock_guard lk(write_mtx_); auto curr = slots_.load()
Channel_Subscribe_Lock(t) ==
    /\ At(t, "cs_lock")
    /\ MutexFree(channel.write_mtx)
    /\ channel' = [channel EXCEPT !.write_mtx = t]
    /\ frames' = Moved(t, [Top(t) EXCEPT !.curr = channel.slots, !.pc = "cs_store"])
    /\ UNCHANGED <<tokens, bcalls>>
    /\ UNCHANGED busRest
    /\ UNCHANGED eventVars

\* next = copy of *curr plus (id, cb); slots_.store(next)
Channel_Subscribe_Store(t) ==
    /\ At(t, "cs_store")
    /\ channel' = [channel EXCEPT !.slots = CopyAppend(Top(t).curr, Top(t).id, Top(t).id)]
    /\ frames' = Moved(t, [Top(t) EXCEPT !.pc = "cs_ret"])
    /\ UNCHANGED <<tokens, bcalls>>
    /\ UNCHANGED busRest
    /\ UNCHANGED eventVars

\* return Subscription{weak_from_this(), id}: curr goes (every slot of it is
\* in slots_, which only the holder of write_mtx_ replaces), lk unlocks
Channel_Subscribe_Return(t) ==
    /\ At(t, "cs_ret")
    /\ channel' = [channel EXCEPT !.write_mtx = 0]
    /\ tokens' = Append(tokens, [id |-> Top(t).id, by |-> 0, gone |-> FALSE])
    /\ frames' = Returned(t)
    /\ UNCHANGED bcalls
    /\ UNCHANGED busRest
    /\ UNCHANGED eventVars

\* -------------------- Event::unsubscribe, directly, by a handle, by ~Subscription
\* ev->unsubscribe(id) with an id handed out or not
Channel_Unsubscribe_Call(t, id) ==
    /\ EvCanStart(t)
    /\ id \in 1..channel.next_id
    /\ frames' = Started(t, [NoFrame EXCEPT !.op = "ev_unsubscribe", !.pc = "cu_lock",
                                            !.id = id])
    /\ bcalls' = bcalls + 1
    /\ UNCHANGED chVars
    /\ UNCHANGED busRest
    /\ UNCHANGED eventVars

\* Subscription::unsubscribe on a handle the callers hold: ev = owner_.lock();
\* id_ # 0: ev->unsubscribe(id_)
Channel_Release_Call(t, h) ==
    /\ EvCanStart(t)
    /\ tokens[h].by = 0
    /\ ~TokenBusy(h)
    /\ ~Inert(TRUE, tokens[h].id)
    /\ frames' = Started(t, [NoFrame EXCEPT !.op = "ev_release", !.pc = "cu_lock",
                                            !.h = h, !.id = tokens[h].id])
    /\ bcalls' = bcalls + 1
    /\ UNCHANGED chVars
    /\ UNCHANGED busRest
    /\ UNCHANGED eventVars

\* the SlotVec that the running call of t lets go held the last copy of the
\* callable that owns handle h: ~Subscription() { unsubscribe(); } runs on t,
\* inside that call
Channel_Slot_Destroy(t, h) ==
    /\ AtScopeEnd(t)
    /\ h \in Dying(t)
    /\ frames' = Started(t, [NoFrame EXCEPT !.op = "ev_destroy",
                                            !.pc = IF Inert(TRUE, tokens[h].id)
                                                   THEN "cu_reset" ELSE "cu_lock",
                                            !.h = h, !.id = tokens[h].id])
    /\ UNCHANGED <<chVars, bcalls>>
    /\ UNCHANGED busRest
    /\ UNCHANGED eventVars

\* lock_guard lk(write_mtx_); auto curr = slots_.load()
Channel_Unsubscribe_Lock(t) ==
    /\ At(t, "cu_lock")
    /\ MutexFree(channel.write_mtx)
    /\ channel' = [channel EXCEPT !.write_mtx = t]
    /\ frames' = Moved(t, [Top(t) EXCEPT !.curr = channel.slots, !.pc = "cu_store"])
    /\ UNCHANGED <<tokens, bcalls>>
    /\ UNCHANGED busRest
    /\ UNCHANGED eventVars

\* the filtering loop; if (removed) slots_.store(next)
Channel_Unsubscribe_Store(t) ==
    /\ At(t, "cu_store")
    /\ LET removed == Removed(Top(t).curr, Top(t).id)
       IN /\ channel' = IF removed
                        THEN [channel EXCEPT !.slots = Kept(Top(t).curr, Top(t).id)]
                        ELSE channel
          /\ frames' = Moved(t, [Top(t) EXCEPT !.removed = removed, !.pc = "cu_ret"])
    /\ UNCHANGED <<tokens, bcalls>>
    /\ UNCHANGED busRest
    /\ UNCHANGED eventVars

\* return removed: next and curr have gone, with the handles they were the
\* last to own; then lk unlocks.  A handle goes on with id_ = 0
Channel_Unsubscribe_Return(t) ==
    /\ At(t, "cu_ret")
    /\ Dying(t) = {}
    /\ channel' = [channel EXCEPT !.write_mtx = 0]
    /\ frames' = IF Top(t).op = "ev_unsubscribe"
                 THEN Returned(t)
                 ELSE Moved(t, [Top(t) EXCEPT !.curr = <<>>, !.pc = "cu_reset"])
    /\ UNCHANGED <<tokens, bcalls>>
    /\ UNCHANGED busRest
    /\ UNCHANGED eventVars

\* back in Subscription::unsubscribe: id_ = 0; owner_.reset(); return removed
\* (and the handle is gone when this was its destructor)
Channel_Release_Return(t) ==
    /\ At(t, "cu_reset")
    /\ tokens' = [tokens EXCEPT ![Top(t).h].id = 0,
                                ![Top(t).h].gone = (Top(t).op = "ev_destroy")]
    /\ frames' = Returned(t)
    /\ UNCHANGED <<channel, bcalls>>
    /\ UNCHANGED busRest
    /\ UNCHANGED eventVars

\* -------------------------------------------------------------- Event::clear
Channel_Clear_Call(t) ==
    /\ EvCanStart(t)
    /\ frames' = Started(t, [NoFrame EXCEPT !.op = "ev_clear", !.pc = "cc_lock"])
    /\ bcalls' = bcalls + 1
    /\ UNCHANGED chVars
    /\ UNCHANGED busRest
    /\ UNCHANGED eventVars

\* lock_guard lk(write_mtx_)
Channel_Clear_Lock(t) ==
    /\ At(t, "cc_lock")
    /\ MutexFree(channel.write_mtx)
    /\ channel' = [channel EXCEPT !.write_mtx = t]
    /\ frames' = Moved(t, [Top(t) EXCEPT !.pc = "cc_store"])
    /\ UNCHANGED <<tokens, bcalls>>
    /\ UNCHANGED busRest
    /\ UNCHANGED eventVars

\* slots_.store(empty): the store lets go of the SlotVec that slots_ held
\* (curr stands for it)
Channel_Clear_Store(t) ==
    /\ At(t, "cc_store")
    /\ channel' = [channel EXCEPT !.slots = <<>>]
    /\ frames' = Moved(t, [Top(t) EXCEPT !.curr = channel.slots, !.pc = "cc_ret"])
    /\ UNCHANGED <<tokens, bcalls>>
    /\ UNCHANGED busRest
    /\ UNCHANGED eventVars

\* the old SlotVec has gone, with the handles it was the last to own; lk unlocks
Channel_Clear_Return(t) ==
    /\ At(t, "cc_ret")
    /\ Dying(t) = {}
    /\ channel' = [channel EXCEPT !.write_mtx = 0]
    /\ frames' = Returned(t)
    /\ UNCHANGED <<tokens, bcalls>>
    /\ UNCHANGED busRest
    /\ UNCHANGED eventVars

\* ------------------------------------------------------------ Event::publish
\* auto snapshot = slots_.load()
Channel_Publish_Load(t) ==
    /\ EvCanStart(t)
    /\ ReaderCanLoad(channel.write_mtx)
    /\ frames' = Started(t, [NoFrame EXCEPT !.op = "ev_publish", !.pc = "cp_iter",
                                            !.snapshot = channel.slots, !.idx = 1])
    /\ bcalls' = bcalls + 1
    /\ UNCHANGED chVars
    /\ UNCHANGED busRest
    /\ UNCHANGED eventVars

\* one turn of the range-for: the callback of the slot at idx returns or
\* throws, after the calls it has made (if any) have returned
Channel_Publish_Invoke(t, outcome) ==
    /\ InEvCallback(t)
    /\ frames' = Moved(t, [Top(t) EXCEPT !.idx = @ + 1,
                                        !.pc = IF Guarded(outcome) = "escaped"
                                               THEN "cp_ret" ELSE @])
    /\ UNCHANGED <<chVars, bcalls>>
    /\ UNCHANGED busRest
    /\ UNCHANGED eventVars

\* the loop is over: snapshot has gone, with the handles it was the last to own
Channel_Publish_Return(t) ==
    /\ AtScopeEnd(t)
    /\ Top(t).op = "ev_publish"
    /\ Dying(t) = {}
    /\ frames' = Returned(t)
    /\ UNCHANGED <<chVars, bcalls>>
    /\ UNCHANGED busRest
    /\ UNCHANGED eventVars

\* --------------------------------------------------- Event::subscriber_count
\* auto snapshot = slots_.load(); n = snapshot->size()
Channel_Count_Read(t) ==
    /\ EvCanStart(t)
    /\ ReaderCanLoad(channel.write_mtx)
    /\ frames' = Started(t, [NoFrame EXCEPT !.op = "ev_count", !.pc = "cn_ret",
                                            !.snapshot = channel.slots,
                                            !.n = Len(channel.slots)])
    /\ bcalls' = bcalls + 1
    /\ UNCHANGED chVars
    /\ UNCHANGED busRest
    /\ UNCHANGED eventVars

\* return n: snapshot has gone, with the handles it was the last to own
Channel_Count_Return(t) ==
    /\ At(t, "cn_ret")
    /\ Dying(t) = {}
    /\ frames' = Returned(t)
    /\ UNCHANGED <<chVars, bcalls>>
    /\ UNCHANGED busRest
    /\ UNCHANGED eventVars

\* the steps of t that go on with a call on `channel` in progress
ChannelStep(t) ==
    \/ Channel_Subscribe_Lock(t)
    \/ Channel_Subscribe_Store(t)
    \/ Channel_Subscribe_Return(t)
    \/ \E h \in 1..Len(tokens) : Channel_Slot_Destroy(t, h)
    \/ Channel_Unsubscribe_Lock(t)
    \/ Channel_Unsubscribe_Store(t)
    \/ Channel_Unsubscribe_Return(t)
    \/ Channel_Release_Return(t)
    \/ Channel_Clear_Lock(t)
    \/ Channel_Clear_Store(t)
    \/ Channel_Clear_Return(t)
    \/ \E outcome \in Outcomes : Channel_Publish_Invoke(t, outcome)
    \/ Channel_Publish_Return(t)
    \/ Channel_Count_Return(t)

ChannelNext ==
    \/ \E t \in Threads, own \in 0..Len(tokens) : Channel_Subscribe_FetchAdd(t, own)
    \/ \E t \in Threads : Channel_Subscribe_Lock(t)
    \/ \E t \in Threads : Channel_Subscribe_Store(t)
    \/ \E t \in Threads : Channel_Subscribe_Return(t)
    \/ \E t \in Threads, id \in 1..channel.next_id : Channel_Unsubscribe_Call(t, id)
    \/ \E t \in Threads, h \in 1..Len(tokens) : Channel_Release_Call(t, h)
    \/ \E t \in Threads, h \in 1..Len(tokens) : Channel_Slot_Destroy(t, h)
    \/ \E t \in Threads : Channel_Unsubscribe_Lock(t)
    \/ \E t \in Threads : Channel_Unsubscribe_Store(t)
    \/ \E t \in Threads : Channel_Unsubscribe_Return(t)
    \/ \E t \in Threads : Channel_Release_Return(t)
    \/ \E t \in Threads : Channel_Clear_Call(t)
    \/ \E t \in Threads : Channel_Clear_Lock(t)
    \/ \E t \in Threads : Channel_Clear_Store(t)
    \/ \E t \in Threads : Channel_Clear_Return(t)
    \/ \E t \in Threads : Channel_Publish_Load(t)
    \/ \E t \in Threads, outcome \in Outcomes : Channel_Publish_Invoke(t, outcome)
    \/ \E t \in Threads : Channel_Publish_Return(t)
    \/ \E t \in Threads : Channel_Count_Read(t)
    \/ \E t \in Threads : Channel_Count_Return(t)

\* programs that use an EventBus and an Event of their own
LiveNext ==
    \/ BusNext
    \/ ChannelNext

\* fair scheduling: a thread that can go on with its call eventually does
\* (callbacks end: each invocation is one step)
SpecLive ==
    Init /\ [][LiveNext]_vars /\ \A t \in Threads : WF_vars(BusStep(t) \/ ChannelStep(t))

\* ===================================================================== claims
\* a publish whose loop has visited its whole snapshot
PublishDone(t) == pc[t] = "pub_iter" /\ loc[t].idx > Len(loc[t].snapshot)

\* C1: a publish delivers to exactly one snapshot that was the current one at
\* some instant of the call: what it has invoked so far is, entry by entry,
\* the prefix of the snapshot it loaded (at the end: the whole snapshot, each
\* entry once, nothing else), whatever stores to slots_ happen meanwhile.
C1_PublishSingleSnapshot ==
    \A t \in Threads :
        pc[t] = "pub_iter" =>
            /\ loc[t].snapshot \in g[t].seen
            /\ g[t].invoked = SubSeq(loc[t].snapshot, 1, loc[t].idx - 1)

\* a publish ended on a two-entry snapshot although slots_ was replaced both
\* between its start and its load and after its load
C1_Witness ==
    \E t \in Threads :
        /\ PublishDone(t)
        /\ Len(loc[t].snapshot) >= 2
        /\ Cardinality(g[t].seen) >= 2
        /\ slots # loc[t].snapshot

\* C2: no publish that started after a Subscription's release had returned
\* invokes the callback of the released id.
C2_NoDeliveryAfterRelease ==
    \A t \in Threads :
        \A i \in 1..Len(g[t].invoked) : g[t].invoked[i].id \notin g[t].barred

\* a publish that started after a handle's unsubscribe() returned true has
\* delivered to another subscriber
C2_Witness ==
    \E t \in Threads :
        /\ PublishDone(t)
        /\ g[t].invoked # <<>>
        /\ \E h \in 1..Len(handles) :
              /\ hrets[h] = <<TRUE>>
              /\ g[t].barred # {}

\* C3: a publish that started after subscribe(id) returned invokes id's
\* callback unless an unsubscribe of id or a clear took the entry out before
\* the publish loaded its snapshot.
C3_SubscribedIsDelivered ==
    \A t \in Threads :
        /\ pc[t] = "pub_iter" => g[t].must \subseteq Ids(loc[t].snapshot)
        /\ PublishDone(t) => g[t].must \subseteq Ids(g[t].invoked)

\* a publish ended that had two subscribers to deliver to
C3_Witness ==
    \E t \in Threads : PublishDone(t) /\ Cardinality(g[t].must) >= 2

\* no subscribe and no unsubscribe is in progress
Quiescent == \A t \in Threads : ~InSub(t) /\ ~InUnsub(t)

\* C4: without clear, at every quiescent point subscriber_count() is the
\* number of completed subscribes minus the number of unsubscribes that
\* returned true.
C4_CountAtQuiescence ==
    (extOwner /\ Quiescent /\ ~cleared) =>
        subscriber_count = subsDone - unsubsTrue

\* a quiescent point after two subscribes and a successful unsubscribe
C4_Witness ==
    /\ extOwner /\ Quiescent /\ ~cleared
    /\ subsDone >= 2 /\ unsubsTrue >= 1 /\ subscriber_count >= 1

\* C5: no fetch_add hands out an id issued before; the ids of the entries of
\* slots_ and the ids the live handles hold are pairwise different.
C5_IdsNeverReused ==
    /\ ~idReused
    /\ \A i, j \in 1..Len(slots) : i # j => slots[i].id # slots[j].id
    /\ \A i, j \in 1..Len(handles) :
          (i # j /\ handles[i].id # 0) => handles[i].id # handles[j].id
    /\ \A t, u \in Threads : (t # u /\ InSub(t) /\ InSub(u)) => loc[t].id # loc[u].id

\* an id was issued after an entry had been removed, once by a clear
C5_Witness ==
    /\ reissue /\ cleared
    /\ Cardinality(issued) >= 2
    /\ slots # <<>>

\* C6: a handle never calls Event::unsubscribe twice for its registration, and
\* every unsubscribe() on a handle after the first returns false.
C6_ReleaseAtMostOnce ==
    /\ \A i, j \in 1..Len(relCalls) : i # j => relCalls[i] # relCalls[j]
    /\ \A h \in 1..Len(hrets) : \A i \in 2..Len(hrets[h]) : hrets[h][i] = FALSE

\* a handle was released (true), released again, then destroyed
C6_Witness ==
    \E h \in 1..Len(handles) :
        /\ Len(hrets[h]) >= 2
        /\ hrets[h][1] = TRUE
        /\ handles[h].destroyed

\* C7: once the destructor of a handle that held an id while the Event existed
\* has ended, slots_ holds no entry with that id.
C7_DestroyedHandleIsRemoved ==
    \A h \in 1..Len(handles) :
        (handles[h].destroyed /\ handles[h].dtorId # 0) =>
            handles[h].dtorId \notin Ids(slots)

\* an active, never released handle was destroyed while another subscriber stays
C7_Witness ==
    \E h \in 1..Len(handles) :
        /\ handles[h].destroyed /\ handles[h].dtorId # 0
        /\ hrets[h] = <<>>
        /\ slots # <<>>
        /\ ~cleared

\* C8 (as claimed): after unsubscribe() was called on a handle whose Event is
\* gone, the call returned false and the handle is inert (id_ = 0, so its
\* boolean test is false).
C8_DeadChannelMarksInert ==
    \A h \in 1..Len(handles) :
        handles[h].deadCall =>
            /\ hrets[h][Len(hrets[h])] = FALSE
            /\ handles[h].id = 0

\* C9: an exception of a callback never leaves publish, and a publish that has
\* ended has invoked every entry of its snapshot, those after a raising one too.
C9_CallbackErrorIsolated ==
    \A t \in Threads :
        /\ pc[t] # "pub_unwind"
        /\ PublishDone(t) => Len(g[t].invoked) = Len(loc[t].snapshot)

\* a publish ended whose first callback raised and whose second was invoked
C9_Witness ==
    \E t \in Threads :
        /\ PublishDone(t)
        /\ Len(g[t].invoked) >= 2
        /\ 1 \in g[t].raised

\* s lists its ids in the order in which their subscribes stored to slots_
InInsertionOrder(s) ==
    \A i, j \in 1..Len(s) :
        i < j => \E p, q \in 1..Len(insertOrder) :
                    p < q /\ insertOrder[p] = s[i].id /\ insertOrder[q] = s[j].id

\* C10: the current snapshot, every snapshot a publish holds and the sequence
\* of callbacks it has invoked are in insertion order; so an unsubscribe
\* keeps the relative order of what remains.
C10_InsertionOrder ==
    /\ InInsertionOrder(slots)
    /\ \A t \in Threads :
          /\ InInsertionOrder(loc[t].snapshot)
          /\ InInsertionOrder(g[t].invoked)

\* a publish ended that delivered to two subscribers whose subscribes took
\* effect in the order opposite to their ids (the second id stored first)
C10_Witness ==
    \E t \in Threads :
        /\ PublishDone(t)
        /\ Len(g[t].invoked) >= 2
        /\ g[t].invoked[1].id > g[t].invoked[2].id

\* t is between the lock and the unlock of write_mtx_
InCritical(t) ==
    pc[t] \in {"sub_store", "sub_ret", "unsub_store", "unsub_ret", "clr_store", "clr_ret"}

\* C11: publish and subscriber_count never take write_mtx_: its holder is always
\* inside subscribe, unsubscribe or clear; the load of a publish and a count
\* can always run, whoever holds the lock; and a subscribe or unsubscribe that
\* waits for the lock can take it whenever no mutator is between lock and
\* unlock, whatever publishes are running.
C11_ReadersNeverLock ==
    /\ \A t \in Threads : write_mtx = t => InCritical(t)
    /\ \A t \in Threads : pc[t] = "pub_load" => ENABLED Publish_Load(t)
    /\ \A t \in Threads : (CanCall(t) /\ extOwner) => ENABLED Subscriber_Count(t)
    /\ \A t \in Threads :
          (pc[t] \in {"sub_lock", "unsub_lock"} /\ \A u \in Threads : ~InCritical(u))
              => ENABLED (Subscribe_Lock(t) \/ Unsubscribe_Lock(t))

\* a publish started, loaded and delivered while another thread was holding
\* write_mtx_ inside subscribe: that thread has stored its entry and not
\* unlocked yet, and the publish saw no other value of slots_ than the one
\* with that entry, which it has delivered in full
C11_Witness ==
    \E t, u \in Threads :
        /\ t # u
        /\ PublishDone(t)
        /\ pc[u] = "sub_ret"
        /\ write_mtx = u
        /\ loc[u].id \in Ids(loc[t].snapshot)
        /\ g[t].seen = {loc[t].snapshot}
        /\ g[t].invoked = loc[t].snapshot

\* the ids whose subscribe has stored to slots_
Inserted == {insertOrder[i] : i \in 1..Len(insertOrder)}

\* C15: an unsubscribe (by id or through a handle) of an id that a clear took
\* out finds nothing, returns false and leaves slots_ as it was; the entries
\* of slots_ are exactly those stored and neither unsubscribed nor cleared
\* since, so entries added after a clear stay.
C15_ClearedIdsStayGone ==
    /\ \A t \in Threads :
          (pc[t] = "unsub_ret" /\ loc[t].id \in clearedIds) =>
              /\ ~loc[t].removed
              /\ slots = loc[t].curr
    /\ \A t \in Threads : pc[t] = "clr_ret" => slots = <<>>
    /\ Ids(slots) = Inserted \ gone

\* a handle issued before a clear was released after it (false) while a
\* subscriber added after the clear is still registered
C15_Witness ==
    \E t \in Threads :
        /\ pc[t] = "unsub_ret"
        /\ loc[t].h # 0
        /\ loc[t].id \in clearedIds
        /\ slots # <<>>

\* C17: a publish that loaded its snapshot before an unsubscribe (or a clear)
\* replaced slots_ still invokes the entries that were taken out.
C17_InFlightPublishKeepsSnapshot ==
    \A t \in Threads :
        PublishDone(t) =>
            \A i \in 1..Len(loc[t].snapshot) :
                loc[t].snapshot[i].id \in gone =>
                    /\ i <= Len(g[t].invoked)
                    /\ g[t].invoked[i] = loc[t].snapshot[i]

\* the loop of a publish stands at an entry whose Subscription was released
\* (unsubscribe returned true) after the publish had started: its callback is
\* invoked next
C17_Witness ==
    \E t \in Threads :
        /\ pc[t] = "pub_iter"
        /\ loc[t].idx <= Len(loc[t].snapshot)
        /\ loc[t].snapshot[loc[t].idx].id \in released \ g[t].barred
        /\ loc[t].snapshot[loc[t].idx].id \notin Ids(slots)
        /\ \E h \in 1..Len(handles) : hrets[h] = <<TRUE>>

\* C19: for each id at most one Event::unsubscribe(id) returns true; an
\* attempt returns true exactly when the id is in the snapshot it loaded under
\* the lock, and one that returns false has left slots_ unchanged.
C19_AtMostOneTrue ==
    /\ \A id \in 1..Len(trueCnt) : trueCnt[id] <= 1
    /\ \A t \in Threads :
          pc[t] = "unsub_ret" =>
              /\ loc[t].removed <=> loc[t].id \in Ids(loc[t].curr)
              /\ ~loc[t].removed => slots = loc[t].curr
    /\ \A h \in 1..Len(hrets) :
          Cardinality({i \in 1..Len(hrets[h]) : hrets[h][i]}) <= 1

\* after an unsubscribe(id) returned true, a release of the same id through
\* its handle is about to return false
C19_Witness ==
    \E t \in Threads :
        /\ pc[t] = "unsub_ret"
        /\ loc[t].h # 0
        /\ ~loc[t].removed
        /\ loc[t].id <= Len(trueCnt)
        /\ trueCnt[loc[t].id] = 1

\* the handles that still stand for a registration
Active(h) == ~handles[h].destroyed /\ handles[h].id # 0

\* C14: a move hands the registration over: a move construction makes a
\* handle that holds the source's (owner_, id_), a move assignment leaves the
\* target with them; the source is left with id_ = 0 (not active, its
\* unsubscribe returns false at once); no two handles are active on the same id.
C14_MoveTransfersRight ==
    /\ \A i \in 1..Len(ctorMoves) : ctorMoves[i].made # 0
    /\ \A t \in Threads :
          pc[t] = "mv_ret" =>
              /\ handles[loc[t].h].id = loc[t].srcId
              /\ handles[loc[t].h].owner = loc[t].srcOwner
              /\ Inert(handles[loc[t].src].owner, handles[loc[t].src].id)
    /\ \A h1, h2 \in 1..Len(handles) :
          (h1 # h2 /\ Active(h1) /\ Active(h2)) => handles[h1].id # handles[h2].id

\* C20: dst = std::move(src) on an active dst releases dst's registration
\* first: when the assignment is about to return, dst's old id is not in
\* slots_ (Event alive), dst holds the (owner_, id_) src had, and src's
\* registration is still in slots_.
C20_AssignReleasesTargetFirst ==
    \A t \in Threads :
        pc[t] = "mv_ret" =>
            /\ (extOwner /\ loc[t].id # 0) => loc[t].id \notin Ids(slots)
            /\ handles[loc[t].h].id = loc[t].srcId
            /\ handles[loc[t].h].owner = loc[t].srcOwner
            /\ (extOwner /\ loc[t].srcId # 0) => loc[t].srcId \in Ids(slots)

\* an active handle was assigned another active handle: its old entry is
\* gone, the entry it took over is registered
C20_Witness ==
    \E t \in Threads :
        /\ pc[t] = "mv_ret"
        /\ extOwner
        /\ loc[t].id # 0
        /\ loc[t].id \in gone
        /\ loc[t].srcId # 0
        /\ loc[t].srcId \in Ids(slots)
        /\ handles[loc[t].h].id = loc[t].srcId

\* the Events the bus has made for a topic
EventsOf(topic) == {k \in 1..Len(chan) : chan[k].topic = topic}

\* C12: the bus makes at most one Event per topic; once made it stays the
\* entry of channels_ for the topic (not replaced, not removed) and every
\* call on the topic works on it, also when subscribes to a topic without an
\* entry run at the same time.
C12_OneChannelPerTopic ==
    \A topic \in Topics :
        /\ Cardinality(EventsOf(topic)) <= 1
        /\ \A k \in EventsOf(topic) : channels[topic] = k
        /\ \A t \in Threads : \A i \in 1..Depth(t) :
              (frames[t][i].topic = topic /\ frames[t][i].ch # 0) =>
                  frames[t][i].ch = channels[topic]

\* a subscribe called when the topic had no entry found the Event another
\* subscribe had made meanwhile, and registered second in it
C12_Witness ==
    \E t \in Threads :
        /\ At(t, "bs_ret")
        /\ Top(t).fresh
        /\ ~Top(t).created
        /\ Len(chan[Top(t).ch].slots) = 2

\* C13: as long as no subscribe has been called with a topic, publishing to
\* it invokes no callback and makes no entry in channels_ (no Event is made,
\* the count of the topic is 0).
C13_PublishUnknownTopicNoOp ==
    \A topic \in Topics \ subStarted :
        /\ channels[topic] = 0
        /\ EventsOf(topic) = {}
        /\ topic \notin delivered
        /\ BusCountOf(topic) = 0
        /\ \A t \in Threads : \A i \in 1..Depth(t) :
              (frames[t][i].pc = "bc_ret" /\ frames[t][i].topic = topic) =>
                  frames[t][i].n = 0
        /\ \A t \in Threads : \A i \in 1..Depth(t) :
              (frames[t][i].op = "publish" /\ frames[t][i].topic = topic) =>
                  /\ frames[t][i].ch = 0
                  /\ frames[t][i].snapshot = <<>>

\* a publish to a topic never subscribed to has looked it up and is about
\* to return, on a bus that has an Event for another topic
C13_Witness ==
    \E t \in Threads :
        /\ At(t, "bp_ret")
        /\ Top(t).topic \notin subStarted
        /\ Top(t).ch = 0
        /\ chan # <<>>

\* C16: no thread holds m_ of the bus and write_mtx_ of an Event at once.
C16_NeverBothLocks ==
    \A t \in Threads :
        ~(bus_m = t /\ \E k \in 1..Len(chan) : chan[k].write_mtx = t)

\* C18: under fair scheduling every call in progress returns, on the Event
\* and on the bus: the stack of calls of each thread empties again, also when
\* callbacks call subscribe, unsubscribe, publish or count on the Event or the
\* bus they are invoked from.
C18_EveryCallReturns ==
    \A t \in Threads : (Depth(t) > 0) ~> (Depth(t) = 0)

\* a thread is in the destructor of a handle, inside Event::unsubscribe or
\* Event::clear, and waits for the write_mtx_ that this very call holds
C18_Witness ==
    \E t \in Threads :
        /\ At(t, "cu_lock")
        /\ Top(t).op = "ev_destroy"
        /\ channel.write_mtx = t
        /\ frames[t][Depth(t) - 1].pc \in {"cu_ret", "cc_ret"}

=============================================================================
